---- MODULE Spec2Model ----
(***************************************************************************)
(* Model of monerowallet.MoneroWallet (src/monerowallet/__init__.py).      *)
(*                                                                         *)
(* Byte strings and text strings are sequences of one-character strings,   *)
(* so that bytes.replace, str.join and str.format act on characters as     *)
(* they do in Python.  Every public method is one action: it builds the    *)
(* request body, hands it to __sendrequest, and the response of the remote *)
(* daemon is the action's nondeterministic input.                          *)
(***************************************************************************)
EXTENDS Integers, Sequences, FiniteSets, TLC

VARIABLES self, call, posts, resp, outcome, urls, ncalls, nposts

vars == <<self, call, posts, resp, outcome, urls, ncalls, nposts>>

(***************************************************************************)
(* Bounds of the model.                                                    *)
(***************************************************************************)
\* longest payment_ids list handed to get_bulk_payments
MaxIds == 2
\* number of public calls made on one client instance
MaxCalls == 2

(***************************************************************************)
(* Python built-ins used by the module.                                    *)
(***************************************************************************)
DigitChar == <<"0", "1", "2", "3", "4", "5", "6", "7", "8", "9">>

RECURSIVE Digits(_)
Digits(n) ==
  IF n < 10 THEN <<DigitChar[n + 1]>>
  ELSE Digits(n \div 10) \o <<DigitChar[(n % 10) + 1]>>

\* str(n) for an int n
IntToStr(n) == IF n < 0 THEN <<"-">> \o Digits(-n) ELSE Digits(n)

\* the least element of a non-empty set of integers
Min(S) == CHOOSE x \in S : \A y \in S : x <= y

\* s.find(old, i): the first index >= i at which old occurs in s, 0 if none
Find(s, old, i) ==
  LET occ == { j \in i..(Len(s) - Len(old) + 1) :
                 s[j] = old[1] /\ SubSeq(s, j, j + Len(old) - 1) = old }
  IN  IF occ = {} THEN 0 ELSE Min(occ)

\* s.replace(old, new): every non-overlapping occurrence of old, scanning
\* from the left; the replacement text is not scanned again.
RECURSIVE ReplaceFrom(_, _, _, _)
ReplaceFrom(s, i, old, new) ==
  LET j == Find(s, old, i)
  IN  IF j = 0 THEN SubSeq(s, i, Len(s))
      ELSE SubSeq(s, i, j - 1) \o new \o ReplaceFrom(s, j + Len(old), old, new)

Replace(s, old, new) == ReplaceFrom(s, 1, old, new)

\* sep.join(list)
RECURSIVE Join(_, _)
Join(sep, list) ==
  IF list = <<>> THEN <<>>
  ELSE IF Len(list) = 1 THEN list[1]
  ELSE list[1] \o sep \o Join(sep, Tail(list))

\* '"{}"'.format(i)
Quoted(i) == <<"\"">> \o i \o <<"\"">>

(***************************************************************************)
(* The request bodies: the bytes literals of the public methods.           *)
(***************************************************************************)
PAYMENTID == <<"P","A","Y","M","E","N","T","I","D">>  \* b'PAYMENTID', lines 153 and 251
PAYMENTIDS == <<"P","A","Y","M","E","N","T","I","D","S">>  \* b'PAYMENTIDS', line 176
HEIGHT == <<"H","E","I","G","H","T">>  \* b'HEIGHT', line 177
TYPE == <<"T","Y","P","E">>  \* b'TYPE', line 208
KEYTYPE == <<"K","E","Y","T","Y","P","E">>  \* b'KEYTYPE', line 229
all_default == <<"a","l","l">>  \* transfer_type='all', line 180
mnemonic_default == <<"m","n","e","m","o","n","i","c">>  \* key_type='mnemonic', line 211
empty_default == <<>>  \* payment_id='', line 233

\* line 67: jsoncontent = b'{\n  "jsonrpc":"2.0",\n  "id":"0",\n  "method":"getbalance"\n}\n'
getbalance_json ==
  <<
   "{","\n"," "," ","\"","j","s","o","n","r","p","c","\"",":","\"","2",".",
   "0","\"",",","\n"," "," ","\"","i","d","\"",":","\"","0","\"",",","\n"," ",
   " ","\"","m","e","t","h","o","d","\"",":","\"","g","e","t","b","a","l","a",
   "n","c","e","\"","\n","}","\n"
  >>

\* line 84: jsoncontent = b'{\n  "jsonrpc":"2.0",\n  "id":"0",\n  "method":"getaddress"\n}\n'
getaddress_json ==
  <<
   "{","\n"," "," ","\"","j","s","o","n","r","p","c","\"",":","\"","2",".",
   "0","\"",",","\n"," "," ","\"","i","d","\"",":","\"","0","\"",",","\n"," ",
   " ","\"","m","e","t","h","o","d","\"",":","\"","g","e","t","a","d","d","r",
   "e","s","s","\"","\n","}","\n"
  >>

\* variant: getheight sends the body of getbalance
getheight_json_copied == getbalance_json

\* line 101: jsoncontent = b'{\n  "jsonrpc":"2.0",\n  "id":"0",\n  "method":"getheight"\n}\n'
getheight_json ==
  <<
   "{","\n"," "," ","\"","j","s","o","n","r","p","c","\"",":","\"","2",".",
   "0","\"",",","\n"," "," ","\"","i","d","\"",":","\"","0","\"",",","\n"," ",
   " ","\"","m","e","t","h","o","d","\"",":","\"","g","e","t","h","e","i","g",
   "h","t","\"","\n","}","\n"
  >>

\* line 116: jsoncontent = b'{\n  "jsonrpc":"2.0",\n  "id":"0",\n  "method":"sweep_dust"\n}\n'
sweep_dust_json ==
  <<
   "{","\n"," "," ","\"","j","s","o","n","r","p","c","\"",":","\"","2",".",
   "0","\"",",","\n"," "," ","\"","i","d","\"",":","\"","0","\"",",","\n"," ",
   " ","\"","m","e","t","h","o","d","\"",":","\"","s","w","e","e","p","_","d",
   "u","s","t","\"","\n","}","\n"
  >>

\* line 133: jsoncontent = b'{\n  "jsonrpc":"2.0",\n  "id":"0",\n  "method":"store"\n}\n'
store_json ==
  <<
   "{","\n"," "," ","\"","j","s","o","n","r","p","c","\"",":","\"","2",".",
   "0","\"",",","\n"," "," ","\"","i","d","\"",":","\"","0","\"",",","\n"," ",
   " ","\"","m","e","t","h","o","d","\"",":","\"","s","t","o","r","e","\"",
   "\n","}","\n"
  >>

\* line 152: jsoncontent = b'{\n  "jsonrpc":"2.0",\n  "id":"0",\n  "method":"get_payments",\n  "params":\n    {\n        "payment_id":"PAYMENTID"\n    }\n}\n'
get_payments_json ==
  <<
   "{","\n"," "," ","\"","j","s","o","n","r","p","c","\"",":","\"","2",".",
   "0","\"",",","\n"," "," ","\"","i","d","\"",":","\"","0","\"",",","\n"," ",
   " ","\"","m","e","t","h","o","d","\"",":","\"","g","e","t","_","p","a","y",
   "m","e","n","t","s","\"",",","\n"," "," ","\"","p","a","r","a","m","s",
   "\"",":","\n"," "," "," "," ","{","\n"," "," "," "," "," "," "," "," ",
   "\"","p","a","y","m","e","n","t","_","i","d","\"",":","\"","P","A","Y","M",
   "E","N","T","I","D","\"","\n"," "," "," "," ","}","\n","}","\n"
  >>

\* line 173: jsoncontent = b'{\n  "jsonrpc":"2.0",\n  "id":"0",\n  "method":"get_bulk_payments",\n  "params":\n    {\n      "payment_ids":[PAYMENTIDS],\n      "min_block_height":HEIGHT\n    }\n}\n'
get_bulk_payments_json ==
  <<
   "{","\n"," "," ","\"","j","s","o","n","r","p","c","\"",":","\"","2",".",
   "0","\"",",","\n"," "," ","\"","i","d","\"",":","\"","0","\"",",","\n"," ",
   " ","\"","m","e","t","h","o","d","\"",":","\"","g","e","t","_","b","u","l",
   "k","_","p","a","y","m","e","n","t","s","\"",",","\n"," "," ","\"","p","a",
   "r","a","m","s","\"",":","\n"," "," "," "," ","{","\n"," "," "," "," "," ",
   " ","\"","p","a","y","m","e","n","t","_","i","d","s","\"",":","[","P","A",
   "Y","M","E","N","T","I","D","S","]",",","\n"," "," "," "," "," "," ","\"",
   "m","i","n","_","b","l","o","c","k","_","h","e","i","g","h","t","\"",":",
   "H","E","I","G","H","T","\n"," "," "," "," ","}","\n","}","\n"
  >>

\* line 207: jsoncontent = b'{\n  "jsonrpc":"2.0",\n  "id":"0",\n  "method":"incoming_transfers",\n  "params":\n    {\n      "transfer_type":"TYPE"\n    }\n}\n'
incoming_transfers_json ==
  <<
   "{","\n"," "," ","\"","j","s","o","n","r","p","c","\"",":","\"","2",".",
   "0","\"",",","\n"," "," ","\"","i","d","\"",":","\"","0","\"",",","\n"," ",
   " ","\"","m","e","t","h","o","d","\"",":","\"","i","n","c","o","m","i","n",
   "g","_","t","r","a","n","s","f","e","r","s","\"",",","\n"," "," ","\"","p",
   "a","r","a","m","s","\"",":","\n"," "," "," "," ","{","\n"," "," "," "," ",
   " "," ","\"","t","r","a","n","s","f","e","r","_","t","y","p","e","\"",":",
   "\"","T","Y","P","E","\"","\n"," "," "," "," ","}","\n","}","\n"
  >>

\* line 228: jsoncontent = b'{\n  "jsonrpc":"2.0",\n  "id":"0",\n  "method":"query_key",\n  "params":\n    {\n      "key_type":"KEYTYPE"\n    }\n}\n'
query_key_json ==
  <<
   "{","\n"," "," ","\"","j","s","o","n","r","p","c","\"",":","\"","2",".",
   "0","\"",",","\n"," "," ","\"","i","d","\"",":","\"","0","\"",",","\n"," ",
   " ","\"","m","e","t","h","o","d","\"",":","\"","q","u","e","r","y","_","k",
   "e","y","\"",",","\n"," "," ","\"","p","a","r","a","m","s","\"",":","\n",
   " "," "," "," ","{","\n"," "," "," "," "," "," ","\"","k","e","y","_","t",
   "y","p","e","\"",":","\"","K","E","Y","T","Y","P","E","\"","\n"," "," ",
   " "," ","}","\n","}","\n"
  >>

\* line 248: jsoncontent = b'{\n  "jsonrpc":"2.0",\n  "id":"0","method":\n  "make_integrated_address",\n    "params":\n      {\n        "payment_id":""\n      }\n}\n'
make_integrated_address_empty_json ==
  <<
   "{","\n"," "," ","\"","j","s","o","n","r","p","c","\"",":","\"","2",".",
   "0","\"",",","\n"," "," ","\"","i","d","\"",":","\"","0","\"",",","\"","m",
   "e","t","h","o","d","\"",":","\n"," "," ","\"","m","a","k","e","_","i","n",
   "t","e","g","r","a","t","e","d","_","a","d","d","r","e","s","s","\"",",",
   "\n"," "," "," "," ","\"","p","a","r","a","m","s","\"",":","\n"," "," ",
   " "," "," "," ","{","\n"," "," "," "," "," "," "," "," ","\"","p","a","y",
   "m","e","n","t","_","i","d","\"",":","\"","\"","\n"," "," "," "," "," ",
   " ","}","\n","}","\n"
  >>

\* line 250: jsoncontent = b'{\n  "jsonrpc":"2.0",\n  "id":"0","method":\n  "make_integrated_address",\n    "params":\n      {\n        "payment_id":"PAYMENTID"\n      }\n}\n'
make_integrated_address_json ==
  <<
   "{","\n"," "," ","\"","j","s","o","n","r","p","c","\"",":","\"","2",".",
   "0","\"",",","\n"," "," ","\"","i","d","\"",":","\"","0","\"",",","\"","m",
   "e","t","h","o","d","\"",":","\n"," "," ","\"","m","a","k","e","_","i","n",
   "t","e","g","r","a","t","e","d","_","a","d","d","r","e","s","s","\"",",",
   "\n"," "," "," "," ","\"","p","a","r","a","m","s","\"",":","\n"," "," ",
   " "," "," "," ","{","\n"," "," "," "," "," "," "," "," ","\"","p","a","y",
   "m","e","n","t","_","i","d","\"",":","\"","P","A","Y","M","E","N","T","I",
   "D","\"","\n"," "," "," "," "," "," ","}","\n","}","\n"
  >>

\* line 271: jsoncontent = b'{\n  "jsonrpc":"2.0",\n  "id":"0",\n  "method":"stop_wallet"\n}\n'
stop_wallet_json ==
  <<
   "{","\n"," "," ","\"","j","s","o","n","r","p","c","\"",":","\"","2",".",
   "0","\"",",","\n"," "," ","\"","i","d","\"",":","\"","0","\"",",","\n"," ",
   " ","\"","m","e","t","h","o","d","\"",":","\"","s","t","o","p","_","w","a",
   "l","l","e","t","\"","\n","}","\n"
  >>

(***************************************************************************)
(* Request construction of the methods that take arguments.  str.encode()  *)
(* maps each ASCII character to the byte of the same value, so a text      *)
(* string and its encoding are the same sequence here.                     *)
(***************************************************************************)
encode(s) == s

get_payments_body(payment_id) ==
  Replace(get_payments_json, PAYMENTID, encode(payment_id))

get_bulk_payments_body(payment_ids, min_block_height) ==
  LET payments_list == [k \in 1..Len(payment_ids) |-> Quoted(payment_ids[k])]
      payments_to_str == Join(<<",">>, payments_list)
      jsoncontent == Replace(get_bulk_payments_json, PAYMENTIDS,
                             encode(payments_to_str))
  IN  Replace(jsoncontent, HEIGHT, encode(IntToStr(min_block_height)))

incoming_transfers_body(transfer_type) ==
  Replace(incoming_transfers_json, TYPE, encode(transfer_type))

query_key_body(key_type) ==
  Replace(query_key_json, KEYTYPE, encode(key_type))

make_integrated_address_body(payment_id) ==
  IF payment_id = <<>>
  THEN make_integrated_address_empty_json
  ELSE Replace(make_integrated_address_json, PAYMENTID, encode(payment_id))

(***************************************************************************)
(* The remote daemon's answers, as seen after req.json().                  *)
(***************************************************************************)
MethodNotFoundMessage == "Method not found"

NoResponse ==
  [kind |-> "none", hasStatus |-> FALSE, status |-> 0, hasError |-> FALSE,
   hasMessage |-> FALSE, message |-> "", hasResult |-> FALSE, result |-> ""]

\* requests.post raised (connection refused, DNS failure, ...)
TransportFailure == [NoResponse EXCEPT !.kind = "transport"]

\* the body is not JSON: req.json() raises
MalformedBody == [NoResponse EXCEPT !.kind = "malformed"]

Statuses == {200, 500}
Messages == {MethodNotFoundMessage, "method not found"}

JsonResponses ==
  { [kind |-> "json", hasStatus |-> hs, status |-> st, hasError |-> he,
     hasMessage |-> hm, message |-> msg, hasResult |-> hr, result |-> rs] :
      hs \in BOOLEAN, st \in Statuses \cup {0}, he \in BOOLEAN,
      hm \in BOOLEAN, msg \in Messages \cup {""}, hr \in BOOLEAN,
      rs \in {"", "{height: 1146043}"} }

\* absent fields hold their default, so that each answer has one encoding;
\* an answer holds a result or an error, not both (JSON-RPC 2.0)
WellFormed(r) ==
  /\ (r.hasStatus <=> r.status # 0)
  /\ (r.hasMessage => r.hasError)
  /\ (r.hasMessage <=> r.message # "")
  /\ (r.hasResult <=> r.result # "")
  /\ (r.hasError => ~r.hasResult)

Responses ==
  {TransportFailure, MalformedBody} \cup {r \in JsonResponses : WellFormed(r)}

\* {"status": 200, "result": {"height": 1146043}}
OkResponse ==
  [NoResponse EXCEPT !.kind = "json", !.hasStatus = TRUE, !.status = 200,
                     !.hasResult = TRUE, !.result = "{height: 1146043}"]

\* {"status": 500, "error": {"message": "Method not found"}}
MethodNotFoundResponse ==
  [NoResponse EXCEPT !.kind = "json", !.hasStatus = TRUE, !.status = 500,
                     !.hasError = TRUE, !.hasMessage = TRUE,
                     !.message = MethodNotFoundMessage]

\* the answers tried with every argument; one argument of each method is
\* tried with every answer of Responses
FewResponses == {OkResponse, MethodNotFoundResponse}

(***************************************************************************)
(* MoneroWallet.__sendrequest                                              *)
(***************************************************************************)
NoHeaders == <<>>
JsonHeaders == << <<"Content-Type", "application/json">> >>

\* '{protocol}://{host}:{port}{path}'.format(...)
Url(server) ==
  <<server.protocol, "://", server.host, ":">> \o IntToStr(server.port)
    \o <<server.path>>

\* variant: the call also rewrites the stored configuration
SetHeaders_rewritesServer(obj) ==
  [obj EXCEPT !.headers = JsonHeaders, !.server.protocol = "https"]

\* self.headers = {'Content-Type': 'application/json'}
SetHeaders(obj) == [obj EXCEPT !.headers = JsonHeaders]

\* variant: the request is sent a second time
Post_retry(obj, jsoncontent) ==
  << [url |-> Url(obj.server), headers |-> obj.headers, data |-> jsoncontent],
     [url |-> Url(obj.server), headers |-> obj.headers, data |-> jsoncontent] >>

\* the HTTP requests issued by one __sendrequest: a single requests.post
Post(obj, jsoncontent) ==
  << [url |-> Url(obj.server), headers |-> obj.headers, data |-> jsoncontent] >>

RetNone == [t |-> "None"]
NoReturn == [t |-> "raised"]

Return(v) ==
  [raised |-> "none", ret |-> v, text |-> "", body |-> <<>>,
   response |-> NoResponse]

Raise(exc, text, body, response) ==
  [raised |-> exc, ret |-> NoReturn, text |-> text, body |-> body,
   response |-> response]

\* variant: the status is tested before the error field
Classify_statusFirst(result, jsoncontent) ==
  IF result.kind = "transport"
  THEN Raise("ConnectionError", "", <<>>, NoResponse)
  ELSE IF result.kind = "malformed"
  THEN Raise("ValueError", "", <<>>, NoResponse)
  ELSE IF ~result.hasStatus
  THEN Raise("KeyError", "status", <<>>, NoResponse)
  ELSE IF result.status # 200
  THEN Raise("StatusCodeError", "Unexpected returned status code: {}",
             <<>>, result)
  ELSE IF result.hasError /\ ~result.hasMessage
  THEN Raise("KeyError", "message", <<>>, NoResponse)
  ELSE IF result.hasError /\ result.message = "Method not found"
  THEN Raise("MethodNotFoundError",
             "Unexpected method while requesting the server: {}",
             jsoncontent, NoResponse)
  ELSE Return(RetNone)

\* variant: a status other than 200 is returned to the caller, not raised
Classify_statusReturned(result, jsoncontent) ==
  IF result.kind = "transport"
  THEN Raise("ConnectionError", "", <<>>, NoResponse)
  ELSE IF result.kind = "malformed"
  THEN Raise("ValueError", "", <<>>, NoResponse)
  ELSE IF result.hasError /\ ~result.hasMessage
  THEN Raise("KeyError", "message", <<>>, NoResponse)
  ELSE IF result.hasError /\ result.message = "Method not found"
  THEN Raise("MethodNotFoundError",
             "Unexpected method while requesting the server: {}",
             jsoncontent, NoResponse)
  ELSE IF ~result.hasStatus
  THEN Raise("KeyError", "status", <<>>, NoResponse)
  ELSE Return(RetNone)

\* variant: every error field is reported as MethodNotFoundError
Classify_anyError(result, jsoncontent) ==
  IF result.kind = "transport"
  THEN Raise("ConnectionError", "", <<>>, NoResponse)
  ELSE IF result.kind = "malformed"
  THEN Raise("ValueError", "", <<>>, NoResponse)
  ELSE IF result.hasError
  THEN Raise("MethodNotFoundError",
             "Unexpected method while requesting the server: {}",
             jsoncontent, NoResponse)
  ELSE IF ~result.hasStatus
  THEN Raise("KeyError", "status", <<>>, NoResponse)
  ELSE IF result.status # 200
  THEN Raise("StatusCodeError", "Unexpected returned status code: {}",
             <<>>, result)
  ELSE Return(RetNone)

\* what __sendrequest does with the answer: the exception raised, or the
\* value returned when the end of the function is reached.
Classify(result, jsoncontent) ==
  IF result.kind = "transport"
  THEN Raise("ConnectionError", "", <<>>, NoResponse)
  ELSE IF result.kind = "malformed"
  THEN Raise("ValueError", "", <<>>, NoResponse)
  ELSE IF result.hasError /\ ~result.hasMessage
  THEN Raise("KeyError", "message", <<>>, NoResponse)
  ELSE IF result.hasError /\ result.message = "Method not found"
  THEN Raise("MethodNotFoundError",
             "Unexpected method while requesting the server: {}",
             jsoncontent, NoResponse)
  ELSE IF ~result.hasStatus
  THEN Raise("KeyError", "status", <<>>, NoResponse)
  ELSE IF result.status # 200
  THEN Raise("StatusCodeError", "Unexpected returned status code: {}",
             <<>>, result)
  ELSE Return(RetNone)

sendrequest(jsoncontent, r) ==
  /\ self' = SetHeaders(self)
  /\ posts' = Post(self', jsoncontent)
  /\ resp' = r
  /\ outcome' = Classify(r, jsoncontent)
  /\ urls' = urls \cup {posts'[k].url : k \in 1..Len(posts')}
  /\ nposts' = nposts + Len(posts')
  /\ ncalls' = ncalls + 1

(***************************************************************************)
(* Arguments the callers pass.                                             *)
(***************************************************************************)
hex_id == <<"9", "4", "d", "d">>

StrArgs == { <<>>, hex_id, <<"\"">>, <<"\\">> }

IdArgs == { <<"a">>, HEIGHT, PAYMENTIDS }

IdLists == UNION { [1..n -> IdArgs] : n \in 0..MaxIds }

Heights == {-7, 0, 100}

Call(op, given, arg, ids, height) ==
  [op |-> op, given |-> given, arg |-> arg, ids |-> ids, height |-> height]

NoArgs(op) == Call(op, FALSE, <<>>, <<>>, 0)

(***************************************************************************)
(* MoneroWallet.__init__ and the public methods.                           *)
(***************************************************************************)
Protocols == {"http", "https"}
Hosts == {"127.0.0.1"}
Ports == {18082}
Paths == {"/json_rpc"}

Init ==
  /\ \E protocol \in Protocols, host \in Hosts, port \in Ports, path \in Paths :
       self = [server |-> [protocol |-> protocol, host |-> host,
                           port |-> port, path |-> path],
               headers |-> NoHeaders]
  /\ call = NoArgs("__init__")
  /\ posts = <<>>
  /\ resp = NoResponse
  /\ outcome = Return(RetNone)
  /\ urls = {}
  /\ ncalls = 0
  /\ nposts = 0

getbalance ==
  /\ ncalls < MaxCalls
  /\ call' = NoArgs("getbalance")
  /\ \E r \in Responses : sendrequest(getbalance_json, r)

getaddress ==
  /\ ncalls < MaxCalls
  /\ call' = NoArgs("getaddress")
  /\ \E r \in Responses : sendrequest(getaddress_json, r)

getheight ==
  /\ ncalls < MaxCalls
  /\ call' = NoArgs("getheight")
  /\ \E r \in Responses : sendrequest(getheight_json, r)

\* variant: the method sends a request like its neighbour sweep_dust
pass_dispatch(op) ==
  /\ call' = NoArgs(op)
  /\ \E r \in Responses : sendrequest(sweep_dust_json, r)

\* a method whose body is `pass`: nothing is sent, None is returned
pass(op) ==
  /\ call' = NoArgs(op)
  /\ posts' = <<>>
  /\ resp' = NoResponse
  /\ outcome' = Return(RetNone)
  /\ ncalls' = ncalls + 1
  /\ UNCHANGED <<self, urls, nposts>>

transfer ==
  /\ ncalls < MaxCalls
  /\ pass("transfer")

transfer_split ==
  /\ ncalls < MaxCalls
  /\ pass("transfer_split")

sweep_dust ==
  /\ ncalls < MaxCalls
  /\ call' = NoArgs("sweep_dust")
  /\ \E r \in Responses : sendrequest(sweep_dust_json, r)

store ==
  /\ ncalls < MaxCalls
  /\ call' = NoArgs("store")
  /\ \E r \in Responses : sendrequest(store_json, r)

get_payments ==
  /\ ncalls < MaxCalls
  /\ \E in \in ((StrArgs \cup {PAYMENTID}) \X FewResponses)
                 \cup ({hex_id} \X Responses) :
       LET payment_id == in[1]
       IN  /\ call' = Call("get_payments", TRUE, payment_id, <<>>, 0)
           /\ sendrequest(get_payments_body(payment_id), in[2])

get_bulk_payments ==
  /\ ncalls < MaxCalls
  /\ \E in \in (IdLists \X {100} \X FewResponses)
                 \cup ({<<hex_id>>} \X Heights \X FewResponses)
                 \cup ({<<hex_id>>} \X {100} \X Responses) :
       LET payment_ids == in[1]
           min_block_height == in[2]
       IN  /\ call' = Call("get_bulk_payments", TRUE, <<>>, payment_ids,
                           min_block_height)
           /\ sendrequest(get_bulk_payments_body(payment_ids,
                                                 min_block_height), in[3])

incoming_transfers ==
  /\ ncalls < MaxCalls
  /\ \E in \in ({TRUE} \X (StrArgs \cup {TYPE}) \X FewResponses)
                 \cup ({FALSE} \X {all_default} \X Responses) :
       LET transfer_type == in[2]
       IN  /\ call' = Call("incoming_transfers", in[1], transfer_type, <<>>, 0)
           /\ sendrequest(incoming_transfers_body(transfer_type), in[3])

query_key ==
  /\ ncalls < MaxCalls
  /\ \E in \in ({TRUE} \X (StrArgs \cup {KEYTYPE}) \X FewResponses)
                 \cup ({FALSE} \X {mnemonic_default} \X Responses) :
       LET key_type == in[2]
       IN  /\ call' = Call("query_key", in[1], key_type, <<>>, 0)
           /\ sendrequest(query_key_body(key_type), in[3])

make_integrated_address ==
  /\ ncalls < MaxCalls
  /\ \E in \in ({TRUE} \X (StrArgs \cup {PAYMENTID}) \X FewResponses)
                 \cup ({FALSE} \X {empty_default} \X Responses) :
       LET payment_id == in[2]
       IN  /\ call' = Call("make_integrated_address", in[1], payment_id,
                           <<>>, 0)
           /\ sendrequest(make_integrated_address_body(payment_id), in[3])

split_integrated_address ==
  /\ ncalls < MaxCalls
  /\ pass("split_integrated_address")

stop_wallet ==
  /\ ncalls < MaxCalls
  /\ call' = NoArgs("stop_wallet")
  /\ \E r \in Responses : sendrequest(stop_wallet_json, r)

Next ==
  \/ getbalance
  \/ getaddress
  \/ getheight
  \/ transfer
  \/ transfer_split
  \/ sweep_dust
  \/ store
  \/ get_payments
  \/ get_bulk_payments
  \/ incoming_transfers
  \/ query_key
  \/ make_integrated_address
  \/ split_integrated_address
  \/ stop_wallet

Spec == Init /\ [][Next]_vars

(***************************************************************************)
(* Reading a request body as JSON (RFC 8259: objects, arrays, strings with *)
(* the two-character escapes, integers), the way the receiving daemon and  *)
(* json.loads read it.  Used to state what a request body says.            *)
(***************************************************************************)
Max(S) == CHOOSE x \in S : \A y \in S : x >= y

JInvalid == [t |-> "invalid"]
JStr(chars) == [t |-> "str", s |-> chars]
JNum(n) == [t |-> "num", n |-> n]
JArr(elems) == [t |-> "arr", a |-> elems]
JObj(members) == [t |-> "obj", m |-> members]

Parsed(v, i) == [ok |-> TRUE, v |-> v, i |-> i]
ParseFail == [ok |-> FALSE, v |-> JInvalid, i |-> 0]

\* the character at index i, "" past the end
At(s, i) == IF i \in 1..Len(s) THEN s[i] ELSE ""

WS == {" ", "\n", "\t", "\r"}
DigitChars == {"0", "1", "2", "3", "4", "5", "6", "7", "8", "9"}
Escapable == {"\"", "\\", "/", "b", "f", "n", "r", "t"}

SkipWS(s, i) ==
  LET rest == { j \in i..Len(s) : s[j] \notin WS }
  IN  IF rest = {} THEN Len(s) + 1 ELSE Min(rest)

\* inside the string opened by the quote at q: the number of backslashes
\* that immediately precede index j
BackslashesBefore(s, q, j) ==
  (j - 1) - Max({ k \in q..(j - 1) : s[k] # "\\" })

\* the quote that closes the string opened at q (0 if none): the first
\* quote preceded by an even number of backslashes
ClosingQuote(s, q) ==
  LET c == { j \in (q + 1)..Len(s) :
               s[j] = "\"" /\ BackslashesBefore(s, q, j) % 2 = 0 }
  IN  IF c = {} THEN 0 ELSE Min(c)

Unescaped(c) ==
  CASE c = "n" -> "\n"
    [] c = "t" -> "\t"
    [] c = "r" -> "\r"
    [] c = "f" -> "\f"
    [] c = "b" -> "<BS>"
    [] OTHER -> c

ParseString(s, q) ==
  LET e == ClosingQuote(s, q)
      escaped(p) == BackslashesBefore(s, q, p) % 2 = 1
      introducer(p) == s[p] = "\\" /\ ~escaped(p)
      inside == [k \in 1..(e - q - 1) |-> q + k]
      kept == SelectSeq(inside, LAMBDA p : ~introducer(p))
  IN  IF e = 0 THEN ParseFail
      ELSE IF \E p \in (q + 1)..(e - 1) :
                \/ escaped(p) /\ s[p] \notin Escapable
                \/ ~escaped(p) /\ s[p] \in {"\n", "\t", "\r"}
      THEN ParseFail
      ELSE Parsed([k \in 1..Len(kept) |->
                     IF escaped(kept[k]) THEN Unescaped(s[kept[k]])
                     ELSE s[kept[k]]],
                  e + 1)

DigitValue(c) == CHOOSE d \in 0..9 : DigitChar[d + 1] = c

RECURSIVE DecimalValue(_)
DecimalValue(ds) ==
  IF Len(ds) = 1 THEN DigitValue(ds[1])
  ELSE 10 * DecimalValue(SubSeq(ds, 1, Len(ds) - 1)) + DigitValue(ds[Len(ds)])

ParseNumber(s, i) ==
  LET neg == At(s, i) = "-"
      d == IF neg THEN i + 1 ELSE i
      stop == { j \in d..(Len(s) + 1) : At(s, j) \notin DigitChars }
      e == Min(stop)
      ds == SubSeq(s, d, e - 1)
  IN  IF e = d \/ (e - d > 1 /\ s[d] = "0") \/ At(s, e) \in {".", "e", "E"}
      THEN ParseFail
      ELSE Parsed(JNum(IF neg THEN 0 - DecimalValue(ds) ELSE DecimalValue(ds)), e)

RECURSIVE ParseValue(_, _), ParseMembers(_, _, _), ParseElems(_, _, _)

ParseValue(s, i) ==
  LET j == SkipWS(s, i)
      c == At(s, j)
  IN  IF c = "\""
      THEN LET r == ParseString(s, j)
           IN  IF r.ok THEN Parsed(JStr(r.v), r.i) ELSE ParseFail
      ELSE IF c = "{" THEN ParseMembers(s, j + 1, <<>>)
      ELSE IF c = "[" THEN ParseElems(s, j + 1, <<>>)
      ELSE IF c \in DigitChars \cup {"-"} THEN ParseNumber(s, j)
      ELSE ParseFail

\* the members of an object, after its "{" or after a ","
ParseMembers(s, i, acc) ==
  LET j == SkipWS(s, i)
  IN  IF acc = <<>> /\ At(s, j) = "}" THEN Parsed(JObj(acc), j + 1)
      ELSE IF At(s, j) # "\"" THEN ParseFail
      ELSE LET key == ParseString(s, j)
           IN  IF ~key.ok \/ At(s, SkipWS(s, key.i)) # ":" THEN ParseFail
               ELSE LET val == ParseValue(s, SkipWS(s, key.i) + 1)
                    IN  IF ~val.ok THEN ParseFail
                        ELSE LET d == SkipWS(s, val.i)
                                 all == Append(acc, [k |-> key.v, v |-> val.v])
                             IN  IF At(s, d) = "," THEN ParseMembers(s, d + 1, all)
                                 ELSE IF At(s, d) = "}" THEN Parsed(JObj(all), d + 1)
                                 ELSE ParseFail

\* the elements of an array, after its "[" or after a ","
ParseElems(s, i, acc) ==
  LET j == SkipWS(s, i)
  IN  IF acc = <<>> /\ At(s, j) = "]" THEN Parsed(JArr(acc), j + 1)
      ELSE LET val == ParseValue(s, j)
           IN  IF ~val.ok THEN ParseFail
               ELSE LET d == SkipWS(s, val.i)
                        all == Append(acc, val.v)
                    IN  IF At(s, d) = "," THEN ParseElems(s, d + 1, all)
                        ELSE IF At(s, d) = "]" THEN Parsed(JArr(all), d + 1)
                        ELSE ParseFail

\* the whole text as one JSON value, JInvalid if it is not one
ParseJSON(s) ==
  LET r == ParseValue(s, 1)
  IN  IF r.ok /\ SkipWS(s, r.i) = Len(s) + 1 THEN r.v ELSE JInvalid

\* an object as a mapping: its keys, and the value of a key (the last
\* member wins when a key is repeated)
Keys(obj) == { obj.m[k].k : k \in 1..Len(obj.m) }
Get(obj, key) == obj.m[Max({ k \in 1..Len(obj.m) : obj.m[k].k = key })].v

K_jsonrpc == <<"j","s","o","n","r","p","c">>
K_id == <<"i","d">>
K_method == <<"m","e","t","h","o","d">>
K_params == <<"p","a","r","a","m","s">>
K_payment_id == <<"p","a","y","m","e","n","t","_","i","d">>
K_payment_ids == <<"p","a","y","m","e","n","t","_","i","d","s">>
K_min_block_height == <<"m","i","n","_","b","l","o","c","k","_","h","e","i","g","h","t">>
K_transfer_type == <<"t","r","a","n","s","f","e","r","_","t","y","p","e">>
K_key_type == <<"k","e","y","_","t","y","p","e">>
V_2_0 == <<"2",".","0">>
V_0 == <<"0">>

\* the remote method name each operation is documented to call
RemoteName(op) ==
  CASE op = "getbalance" -> <<"g","e","t","b","a","l","a","n","c","e">>
    [] op = "getaddress" -> <<"g","e","t","a","d","d","r","e","s","s">>
    [] op = "getheight" -> <<"g","e","t","h","e","i","g","h","t">>
    [] op = "sweep_dust" -> <<"s","w","e","e","p","_","d","u","s","t">>
    [] op = "store" -> <<"s","t","o","r","e">>
    [] op = "stop_wallet" -> <<"s","t","o","p","_","w","a","l","l","e","t">>
    [] op = "get_payments" -> <<"g","e","t","_","p","a","y","m","e","n","t","s">>
    [] op = "get_bulk_payments" -> <<"g","e","t","_","b","u","l","k","_","p","a","y","m","e","n","t","s">>
    [] op = "incoming_transfers" -> <<"i","n","c","o","m","i","n","g","_","t","r","a","n","s","f","e","r","s">>
    [] op = "query_key" -> <<"q","u","e","r","y","_","k","e","y">>
    [] op = "make_integrated_address" -> <<"m","a","k","e","_","i","n","t","e","g","r","a","t","e","d","_","a","d","d","r","e","s","s">>

(***************************************************************************)
(* Vocabulary of the properties.                                           *)
(***************************************************************************)
Parameterless ==
  {"getbalance", "getaddress", "getheight", "store", "stop_wallet", "sweep_dust"}

SingleString ==
  {"get_payments", "incoming_transfers", "query_key", "make_integrated_address"}

Implemented == Parameterless \cup SingleString \cup {"get_bulk_payments"}

Unimplemented == {"transfer", "transfer_split", "split_integrated_address"}

\* the params key a single-string operation is documented to send
ParamKey(op) ==
  CASE op = "get_payments" -> K_payment_id
    [] op = "incoming_transfers" -> K_transfer_type
    [] op = "query_key" -> K_key_type
    [] op = "make_integrated_address" -> K_payment_id

\* the body the operation of a call builds from the call's own arguments
RequestBody(c) ==
  CASE c.op = "getbalance" -> getbalance_json
    [] c.op = "getaddress" -> getaddress_json
    [] c.op = "getheight" -> getheight_json
    [] c.op = "sweep_dust" -> sweep_dust_json
    [] c.op = "store" -> store_json
    [] c.op = "stop_wallet" -> stop_wallet_json
    [] c.op = "get_payments" -> get_payments_body(c.arg)
    [] c.op = "get_bulk_payments" -> get_bulk_payments_body(c.ids, c.height)
    [] c.op = "incoming_transfers" -> incoming_transfers_body(c.arg)
    [] c.op = "query_key" -> query_key_body(c.arg)
    [] c.op = "make_integrated_address" -> make_integrated_address_body(c.arg)

\* the request the last call sent, read as JSON
SentJson == ParseJSON(posts[1].data)

\* the envelope fields every request carries
HasEnvelope(j, op) ==
  /\ j.t = "obj"
  /\ {K_jsonrpc, K_id, K_method} \subseteq Keys(j)
  /\ Get(j, K_jsonrpc) = JStr(V_2_0)
  /\ Get(j, K_id) = JStr(V_0)
  /\ Get(j, K_method) = JStr(RemoteName(op))

\* status 200, a result field, no error field
IsSuccess(r) ==
  /\ r.kind = "json"
  /\ r.hasStatus /\ r.status = 200
  /\ r.hasResult
  /\ ~r.hasError

IsMethodNotFound(r) ==
  /\ r.kind = "json"
  /\ r.hasError /\ r.hasMessage
  /\ r.message = MethodNotFoundMessage

IsOtherError(r) ==
  /\ r.kind = "json"
  /\ r.hasError /\ r.hasMessage
  /\ r.message # MethodNotFoundMessage

(***************************************************************************)
(* Properties.                                                             *)
(***************************************************************************)

\* C1: an implemented operation whose answer has status 200, a result and
\* no error raises nothing and returns the parsed answer itself.
C1_ReturnsEnvelope ==
  (call.op \in Implemented /\ IsSuccess(resp)) =>
    /\ outcome.raised = "none"
    /\ outcome.ret.t = "dict"
    /\ outcome.ret.v = resp

\* C2: an answer whose error message is exactly "Method not found" makes
\* every implemented operation raise MethodNotFoundError, whatever the
\* status field holds (200, another value, or absent), never
\* StatusCodeError; the error carries the request body that was sent.
C2_MethodNotFound ==
  (call.op \in Implemented /\ IsMethodNotFound(resp)) =>
    /\ outcome.raised = "MethodNotFoundError"
    /\ Len(posts) = 1
    /\ outcome.body = posts[1].data
    /\ outcome.body = RequestBody(call)

C2_Witness ==
  /\ call.op = "getheight"
  /\ IsMethodNotFound(resp)
  /\ resp.hasStatus /\ resp.status = 200
  /\ outcome.raised = "MethodNotFoundError"
  /\ outcome.body = getheight_json

\* C3: an answer with no error field and an integer status other than 200
\* makes every implemented operation raise StatusCodeError carrying the
\* whole parsed answer; nothing is returned.
C3_StatusCodeError ==
  (/\ call.op \in Implemented
   /\ resp.kind = "json"
   /\ ~resp.hasError
   /\ resp.hasStatus /\ resp.status # 200) =>
    /\ outcome.raised = "StatusCodeError"
    /\ outcome.response = resp
    /\ outcome.ret = NoReturn

C3_Witness ==
  /\ call.op = "store"
  /\ resp.kind = "json" /\ ~resp.hasError
  /\ resp.hasStatus /\ resp.status = 500
  /\ outcome.raised = "StatusCodeError"
  /\ outcome.response = resp

\* C4: the body of each parameterless operation is an object with exactly
\* the keys jsonrpc ("2.0"), id ("0") and method (the operation's own remote
\* name, different from every other operation's), and no params key.
C4_ParameterlessBody ==
  (call.op \in Parameterless) =>
    /\ Len(posts) = 1
    /\ HasEnvelope(SentJson, call.op)
    /\ Keys(SentJson) = {K_jsonrpc, K_id, K_method}
    /\ Len(SentJson.m) = 3
    /\ \A other \in Parameterless \ {call.op} :
         Get(SentJson, K_method) # JStr(RemoteName(other))

C4_Witness ==
  /\ call.op = "getheight"
  /\ Len(posts) = 1
  /\ posts[1].data = getheight_json
  /\ Keys(SentJson) = {K_jsonrpc, K_id, K_method}

\* C5: get_bulk_payments(ids, h) sends method "get_bulk_payments" with
\* params exactly {payment_ids: ids, min_block_height: h}: same length, same
\* elements, same order, for every list of ids (the empty list and ids
\* holding the words PAYMENTIDS or HEIGHT included) and every integer h.
C5_BulkPaymentsParams ==
  (call.op = "get_bulk_payments") =>
    /\ Len(posts) = 1
    /\ HasEnvelope(SentJson, call.op)
    /\ Keys(SentJson) = {K_jsonrpc, K_id, K_method, K_params}
    /\ LET params == Get(SentJson, K_params)
       IN  /\ params.t = "obj"
           /\ Keys(params) = {K_payment_ids, K_min_block_height}
           /\ Get(params, K_payment_ids) =
                JArr([k \in 1..Len(call.ids) |-> JStr(call.ids[k])])
           /\ Get(params, K_min_block_height) = JNum(call.height)

\* C6: each single-string operation sends params holding exactly one key,
\* whose value is the supplied string verbatim (the default when the
\* argument is omitted: "all", "mnemonic", ""), and both branches of
\* make_integrated_address give the same body for the same payment id.
C6_SingleStringParams ==
  (call.op \in SingleString) =>
    /\ Len(posts) = 1
    /\ HasEnvelope(SentJson, call.op)
    /\ Keys(SentJson) = {K_jsonrpc, K_id, K_method, K_params}
    /\ LET params == Get(SentJson, K_params)
       IN  /\ params.t = "obj"
           /\ Keys(params) = {ParamKey(call.op)}
           /\ Len(params.m) = 1
           /\ Get(params, ParamKey(call.op)) = JStr(call.arg)
    /\ (call.op = "incoming_transfers" /\ ~call.given) => call.arg = all_default
    /\ (call.op = "query_key" /\ ~call.given) => call.arg = mnemonic_default
    /\ (call.op = "make_integrated_address" /\ ~call.given) => call.arg = <<>>
    /\ (call.op = "make_integrated_address") =>
         posts[1].data = Replace(make_integrated_address_json, PAYMENTID, call.arg)

\* C7: every call of an implemented operation performs exactly one POST, to
\* {protocol}://{host}:{port}{path}, with the header Content-Type:
\* application/json and the operation's body, whatever the outcome; a
\* transport or parse failure reaches the caller as itself.
C7_OnePostPerCall ==
  [][(call'.op \in Implemented) =>
       /\ Len(posts') = 1
       /\ nposts' = nposts + 1
       /\ posts'[1].url = <<self.server.protocol, "://", self.server.host, ":">>
                            \o IntToStr(self.server.port) \o <<self.server.path>>
       /\ posts'[1].headers = << <<"Content-Type", "application/json">> >>
       /\ posts'[1].data = RequestBody(call')
       /\ (resp'.kind = "transport" => outcome'.raised = "ConnectionError")
       /\ (resp'.kind = "malformed" => outcome'.raised = "ValueError")
       /\ (resp'.kind \in {"transport", "malformed"} =>
             outcome'.raised \notin {"MethodNotFoundError", "StatusCodeError"})
    ]_vars

C7_Witness ==
  /\ call.op = "get_bulk_payments"
  /\ ncalls = 2 /\ nposts = 2
  /\ Len(posts) = 1
  /\ resp.kind = "malformed"
  /\ outcome.raised = "ValueError"

\* C8: no public call changes the configuration set at construction,
\* however the call ends; every POST of the instance goes to one URL, and
\* the body and the outcome of a call are those of its own arguments and
\* its own answer.
C8_ConfigurationFrame ==
  [][/\ self'.server = self.server
     /\ Cardinality(urls') <= 1
     /\ (call'.op \in Implemented =>
           /\ posts'[1].data = RequestBody(call')
           /\ outcome' = Classify(resp', RequestBody(call')))
    ]_vars

C8_Witness ==
  /\ ncalls = 2 /\ nposts = 2
  /\ Cardinality(urls) = 1
  /\ call.op = "query_key"
  /\ outcome.raised = "StatusCodeError"
  /\ self.headers = JsonHeaders

\* C9: an error field whose message is not "Method not found" is ignored:
\* the call raises StatusCodeError when the status is not 200, raises
\* nothing when it is 200, and never raises MethodNotFoundError.
C9_OtherErrorIgnored ==
  (call.op \in Implemented /\ IsOtherError(resp)) =>
    /\ outcome.raised # "MethodNotFoundError"
    /\ (resp.hasStatus /\ resp.status # 200) =>
         (outcome.raised = "StatusCodeError" /\ outcome.response = resp)
    /\ (resp.hasStatus /\ resp.status = 200) => outcome.raised = "none"

C9_Witness ==
  /\ call.op = "getaddress"
  /\ IsOtherError(resp)
  /\ resp.hasStatus /\ resp.status = 200
  /\ outcome.raised = "none"

\* C10: transfer, transfer_split and split_integrated_address send nothing:
\* no POST, no error, None returned, configuration untouched.
C10_UnimplementedInert ==
  [][(call'.op \in Unimplemented) =>
       /\ posts' = <<>>
       /\ nposts' = nposts
       /\ urls' = urls
       /\ outcome'.raised = "none"
       /\ outcome'.ret = RetNone
       /\ self' = self
    ]_vars

C10_Witness ==
  /\ call.op = "split_integrated_address"
  /\ ncalls = 2 /\ nposts = 1
  /\ posts = <<>>
  /\ outcome.raised = "none"
====
